---- MODULE Spec2Model ----
(***************************************************************************)
(* Risk-scoring pipeline of P1-Axis (src/EOT/scoring.py).                  *)
(*                                                                         *)
(* calculate_score is modelled step by step: one action per numbered step  *)
(* of the function body.  Floats are modelled by exact integers: weights   *)
(* and numeric feature values are integers, so contributions and the raw   *)
(* score are integers; the normalisation bound max(1.0, sum|w| / 2) is a   *)
(* multiple of one half, so the two arguments of _calibrate_score are      *)
(* carried in halves (both doubled), which leaves their quotient exact.    *)
(*                                                                         *)
(* features.py, rules.py and explainability.py are imported by scoring.py  *)
(* but are not part of the available sources; extract_all_features,        *)
(* hard_rules, weighted_sum, top_reason_codes and DEFAULT_WEIGHTS are      *)
(* modelled from their contracts in spec.md (sections 4.1, 4.2, 4.3, 4.6). *)
(***************************************************************************)
EXTENDS Integers, Sequences, FiniteSets, TLC

\* ------------------------------------------------------------------------
\* Bounds of the checked input space
\* ------------------------------------------------------------------------
\* numeric feature values range over 0..MaxVal
MaxVal == 1
\* ordinary weights range over -MaxW..MaxW
MaxW == 1
\* a weight whose contribution exceeds the hard-rule sentinel in magnitude
BigW == 1000
\* sparse weight configurations name at most MaxKeys names
MaxKeys == 2

\* ------------------------------------------------------------------------
\* Enums (scoring.py:16-25)
\* ------------------------------------------------------------------------
RiskStatus == {"LEGITIMO", "DESCONFIAVEL", "ALTO_RISCO"}

RecommendedAction == {"allow", "step_up_auth", "block"}

\* the empty dict
EmptyMap == [x \in {} |-> 0]

\* ------------------------------------------------------------------------
\* Feature extractor (features.py, from spec 4.1)
\* ------------------------------------------------------------------------
\* the fixed shape of the FeatureSet, in computation order
FeatureSpec ==
    << [name |-> "known_device",      group |-> "device",     bool |-> TRUE],
       [name |-> "rooted",            group |-> "device",     bool |-> TRUE],
       [name |-> "typing_score",      group |-> "behavior",   bool |-> FALSE],
       [name |-> "malicious_ip",      group |-> "geo",        bool |-> TRUE],
       [name |-> "impossible_travel", group |-> "geo",        bool |-> TRUE],
       [name |-> "face_match",        group |-> "biometrics", bool |-> TRUE] >>

FeatureNames == {FeatureSpec[i].name : i \in DOMAIN FeatureSpec}

BoolFeatures == {FeatureSpec[i].name : i \in {j \in DOMAIN FeatureSpec : FeatureSpec[j].bool}}

SpecOf(f) == FeatureSpec[CHOOSE i \in DOMAIN FeatureSpec : FeatureSpec[i].name = f]

SignalGroups == {"device", "behavior", "geo", "biometrics"}

FieldsOf(g) == {FeatureSpec[i].name : i \in {j \in DOMAIN FeatureSpec : FeatureSpec[j].group = g}}

\* neutral default of a missing field: false for booleans, 0 for numbers
NeutralDefault(f) == IF f \in BoolFeatures THEN FALSE ELSE 0

extract_all_features(p) ==
    [f \in FeatureNames |->
        LET g == SpecOf(f).group
        IN  IF g \in DOMAIN p /\ f \in DOMAIN p[g] THEN p[g][f] ELSE NeutralDefault(f)]

\* ------------------------------------------------------------------------
\* Hard rule engine (rules.py, from spec 4.2)
\* ------------------------------------------------------------------------
\* ordered list of predicates: rule i matches when its feature is true
HardRuleList ==
    << [feature |-> "malicious_ip",      code |-> "MALICIOUS_IP"],
       [feature |-> "impossible_travel", code |-> "IMPOSSIBLE_TRAVEL"] >>

RuleMatches(i, fs) == fs[HardRuleList[i].feature] = TRUE

\* variant: evaluation gives up at the first predicate that throws
hard_rules_failing_stopping(fs, faults) ==
    LET reached  == {i \in DOMAIN HardRuleList : \A j \in faults : i < j}
        matching == {i \in reached : RuleMatches(i, fs)}
    IN  IF matching = {} THEN <<FALSE, "">>
        ELSE LET first == CHOOSE i \in matching : \A j \in matching : i <= j
             IN  <<TRUE, HardRuleList[first].code>>

\* variant: every rule is evaluated and the last matching one is returned
hard_rules_failing_last(fs, faults) ==
    LET matching == {i \in DOMAIN HardRuleList \ faults : RuleMatches(i, fs)}
    IN  IF matching = {} THEN <<FALSE, "">>
        ELSE LET last == CHOOSE i \in matching : \A j \in matching : i >= j
             IN  <<TRUE, HardRuleList[last].code>>

\* evaluation in which the predicates of the rules in faults throw: each failure is
\* caught and counts as "did not fire", and the rules after it are still evaluated
hard_rules_failing(fs, faults) ==
    LET matching == {i \in DOMAIN HardRuleList \ faults : RuleMatches(i, fs)}
    IN  IF matching = {} THEN <<FALSE, "">>
        ELSE LET first == CHOOSE i \in matching : \A j \in matching : i <= j
             IN  <<TRUE, HardRuleList[first].code>>

hard_rules(fs) == hard_rules_failing(fs, {})

\* ------------------------------------------------------------------------
\* Weighted scorer (rules.py, from spec 4.3)
\* ------------------------------------------------------------------------
\* Python floats: the finite values are integers here; inf, -inf and nan are three
\* values outside the finite range, with the arithmetic of IEEE 754
PosInf == 1000000

NegInf == 0 - PosInf

NaN == 2 * PosInf

IsFinite(x) == x \notin {PosInf, NegInf, NaN}

\* abs(x)
FAbs(x) ==
    IF x = NaN THEN NaN
    ELSE IF x = NegInf THEN PosInf
    ELSE IF x < 0 THEN 0 - x ELSE x

\* a + b
FAdd(a, b) ==
    IF a = NaN \/ b = NaN THEN NaN
    ELSE IF ~IsFinite(a) THEN (IF ~IsFinite(b) /\ b # a THEN NaN ELSE a)
    ELSE IF ~IsFinite(b) THEN b
    ELSE a + b

\* a * b
FMul(a, b) ==
    IF a = NaN \/ b = NaN THEN NaN
    ELSE IF IsFinite(a) /\ IsFinite(b) THEN a * b
    ELSE IF a = 0 \/ b = 0 THEN NaN
    ELSE IF (a > 0) = (b > 0) THEN PosInf ELSE NegInf

\* twice a float (the model carries the arguments of the calibration in halves)
Halves(x) == IF IsFinite(x) THEN 2 * x ELSE x

\* boolean features count as 0/1
NumValue(f, v) == IF f \in BoolFeatures THEN (IF v THEN 1 ELSE 0) ELSE v

RECURSIVE SumSeq(_)
SumSeq(s) == IF s = <<>> THEN 0 ELSE FAdd(Head(s).contribution, SumSeq(Tail(s)))

RECURSIVE ContributionsFrom(_, _, _)
ContributionsFrom(i, fs, wcfg) ==
    IF i > Len(FeatureSpec) THEN <<>>
    ELSE LET f == FeatureSpec[i].name
         IN  IF f \in DOMAIN fs /\ f \in DOMAIN wcfg
             THEN <<[feature |-> f, contribution |-> FMul(NumValue(f, fs[f]), wcfg[f])]>>
                      \o ContributionsFrom(i + 1, fs, wcfg)
             ELSE ContributionsFrom(i + 1, fs, wcfg)

weighted_sum(fs, wcfg) ==
    LET cs == ContributionsFrom(1, fs, wcfg)
    IN  <<SumSeq(cs), cs>>

\* the module-wide default weight configuration
DefaultWeightConfig ==
    [f \in FeatureNames |->
        CASE f = "known_device"      -> 2
          [] f = "rooted"            -> -2
          [] f = "typing_score"      -> 1
          [] f = "malicious_ip"      -> -3
          [] f = "impossible_travel" -> -2
          [] f = "face_match"        -> 2]

\* ------------------------------------------------------------------------
\* Explainability ranker (explainability.py, from spec 4.6)
\* ------------------------------------------------------------------------
Abs(x) == IF x < 0 THEN -x ELSE x

\* variant: c is inserted before the elements of equal magnitude (ties reversed)
RECURSIVE InsertByAbsBeforeTies(_, _)
InsertByAbsBeforeTies(c, s) ==
    IF s = <<>> THEN <<c>>
    ELSE IF Abs(Head(s).contribution) > Abs(c.contribution)
         THEN <<Head(s)>> \o InsertByAbsBeforeTies(c, Tail(s))
         ELSE <<c>> \o s

\* insert c after every element of s that is at least as large in magnitude
RECURSIVE InsertByAbs(_, _)
InsertByAbs(c, s) ==
    IF s = <<>> THEN <<c>>
    ELSE IF Abs(Head(s).contribution) >= Abs(c.contribution)
         THEN <<Head(s)>> \o InsertByAbs(c, Tail(s))
         ELSE <<c>> \o s

\* stable sort by descending absolute contribution
RECURSIVE SortByAbs(_)
SortByAbs(s) ==
    IF s = <<>> THEN <<>>
    ELSE InsertByAbs(s[Len(s)], SortByAbs(SubSeq(s, 1, Len(s) - 1)))

top_reason_codes(cs, top_k) ==
    LET sorted == SortByAbs(cs)
        n      == IF Len(sorted) < top_k THEN Len(sorted) ELSE top_k
    IN  [i \in 1..n |-> [code |-> sorted[i].feature, contribution |-> sorted[i].contribution]]

\* ------------------------------------------------------------------------
\* Core functions (scoring.py:52-68)
\* ------------------------------------------------------------------------
\* variant: int(scaled) without round() truncates
RoundTruncating(n, d) == n \div d

\* int(round(n / d)) for n >= 0, d > 0: Python rounds halves to the even side
RoundHalfEven(n, d) ==
    LET q == n \div d
        r == n % d
    IN  IF 2 * r < d THEN q
        ELSE IF 2 * r > d THEN q + 1
        ELSE IF q % 2 = 0 THEN q ELSE q + 1

\* variant: the clamp to -1..1 is forgotten
calibrate_score_unclamped(score_raw, max_abs_weight) ==
    LET m == IF max_abs_weight <= 0 THEN 2 ELSE max_abs_weight
    IN  RoundHalfEven((score_raw + m) * 50, m)

\* variant: the scale is inverted, (1.0 - normalized) * 50.0
calibrate_score_inverted(score_raw, max_abs_weight) ==
    LET m       == IF max_abs_weight <= 0 THEN 2 ELSE max_abs_weight
        clamped == IF score_raw > m THEN m ELSE IF score_raw < -m THEN -m ELSE score_raw
    IN  RoundHalfEven((m - clamped) * 50, m)

\* variant: the scaled value is shifted by the wrong offset, normalized * 50.0
calibrate_score_unshifted(score_raw, max_abs_weight) ==
    LET m       == IF max_abs_weight <= 0 THEN 2 ELSE max_abs_weight
        clamped == IF score_raw > m THEN m ELSE IF score_raw < -m THEN -m ELSE score_raw
    IN  RoundHalfEven(clamped * 50, m)

\* both arguments in halves; 1.0 is 2 halves
\* int(round(nan)) raises ValueError: the quotient score_raw / max_abs_weight is nan,
\* and min and max hand a nan first argument through
calibrate_score_raises(score_raw, max_abs_weight) ==
    \/ score_raw = NaN
    \/ max_abs_weight = NaN
    \/ ~IsFinite(score_raw) /\ ~IsFinite(max_abs_weight)

calibrate_score(score_raw, max_abs_weight) ==
    LET m       == IF max_abs_weight <= 0 THEN 2 ELSE max_abs_weight
        \* normalized = clamped / m, in -1..1
        clamped == IF score_raw > m THEN m ELSE IF score_raw < -m THEN -m ELSE score_raw
        \* scaled = (normalized + 1.0) * 50.0 = ((clamped + m) * 50) / m
    IN  IF m = PosInf THEN 50   \* finite / inf = 0.0
        ELSE RoundHalfEven((clamped + m) * 50, m)

\* variant: the upper threshold is exclusive (score > 75)
map_to_status_action_above75(s) ==
    IF s > 75 THEN <<"LEGITIMO", "allow">>
    ELSE IF s >= 50 THEN <<"DESCONFIAVEL", "step_up_auth">>
    ELSE <<"ALTO_RISCO", "block">>

\* variant: the lower threshold is exclusive (score > 50)
map_to_status_action_above50(s) ==
    IF s >= 75 THEN <<"LEGITIMO", "allow">>
    ELSE IF s > 50 THEN <<"DESCONFIAVEL", "step_up_auth">>
    ELSE <<"ALTO_RISCO", "block">>

\* variant: the bands are reversed (high scores block, low scores allow)
map_to_status_action_reversed(s) ==
    IF s >= 75 THEN <<"ALTO_RISCO", "block">>
    ELSE IF s >= 50 THEN <<"DESCONFIAVEL", "step_up_auth">>
    ELSE <<"LEGITIMO", "allow">>

map_to_status_action(s) ==
    IF s >= 75 THEN <<"LEGITIMO", "allow">>
    ELSE IF s >= 50 THEN <<"DESCONFIAVEL", "step_up_auth">>
    ELSE <<"ALTO_RISCO", "block">>

\* sum(abs(v) for v in w.values())
RECURSIVE SumAbs(_)
SumAbs(wcfg) ==
    IF DOMAIN wcfg = {} THEN 0
    ELSE LET k == CHOOSE x \in DOMAIN wcfg : TRUE
         IN  FAdd(FAbs(wcfg[k]), SumAbs([x \in DOMAIN wcfg \ {k} |-> wcfg[x]]))

\* variant: the floor is forgotten, sum|w| / 2.0
dynamic_max_unfloored(wcfg) == SumAbs(wcfg)

\* variant: the division by 2.0 is forgotten, max(1.0, sum|w|)
dynamic_max_unhalved(wcfg) == IF 2 * SumAbs(wcfg) > 2 THEN 2 * SumAbs(wcfg) ELSE 2

\* max(1.0, sum|w| / 2.0), in halves; max keeps 1.0 unless the other argument
\* compares greater, which nan never does
dynamic_max(wcfg) ==
    IF SumAbs(wcfg) = NaN THEN 2
    ELSE IF SumAbs(wcfg) > 2 THEN SumAbs(wcfg) ELSE 2

\* contribution of the synthetic hard-rule reason code (scoring.py:107)
HardRuleSentinel == -999

\* top_k passed to the ranker (scoring.py:105)
TopK == 5

\* a weights argument: None, or a dict
NoWeights == [given |-> FALSE, map |-> EmptyMap]

Supplied(m) == [given |-> TRUE, map |-> m]

\* Python truthiness of the weights argument: None and {} are falsy
Truthy(wa) == wa.given /\ DOMAIN wa.map # {}

\* ------------------------------------------------------------------------
\* Input space
\* ------------------------------------------------------------------------
\* names used by sparse configurations: a numeric feature, a boolean feature that a
\* hard rule tests, and a name that no feature carries
SparseNames == {"typing_score", "malicious_ip", "unknown_signal"}

WeightVals == (-MaxW..MaxW) \cup {-BigW, BigW}

SparseConfigs ==
    UNION {[K -> WeightVals] : K \in {S \in SUBSET SparseNames : Cardinality(S) <= MaxKeys}}

WideVals == {-2, 1}

WideConfigs == [FeatureNames -> WideVals]

WeightArgs == {NoWeights} \cup {Supplied(m) : m \in SparseConfigs \cup WideConfigs}

\* payloads carrying all four signal groups with every field set
FieldValuations ==
    {b @@ n : b \in [BoolFeatures -> BOOLEAN], n \in [FeatureNames \ BoolFeatures -> 0..MaxVal]}

FullPayloads ==
    {[g \in SignalGroups |-> [f \in FieldsOf(g) |-> fs[f]]] : fs \in FieldValuations}

\* ------------------------------------------------------------------------
\* State
\* ------------------------------------------------------------------------
VARIABLES
    payload,          \* argument of the call in progress
    weights,          \* argument of the call in progress
    DEFAULT_WEIGHTS,  \* module-level default configuration (rules.py)
    pc,               \* position of the call inside calculate_score
    w, features, fired_rule, hard_code, score_raw, contributions,
    score, status, action, reasons,   \* locals of calculate_score
    result,           \* the returned ScoreResult
    memo,             \* an earlier call kept by the caller: its arguments and result
    rule_faults       \* the hard rules whose predicate throws during this call

\* what a call is given and does not change: its arguments and the failing rules
args == <<payload, weights, rule_faults>>

\* the state of a calculate_score call and of its caller
scoring == <<payload, weights, DEFAULT_WEIGHTS, pc, w, features, fired_rule, hard_code,
             score_raw, contributions, score, status, action, reasons, result, memo,
             rule_faults>>

\* ------------------------------------------------------------------------
\* State of the collectors around the scoring core
\* ------------------------------------------------------------------------
VARIABLES
    auth_attempts,    \* IPLocationSDK.auth_attempts: user key -> recorded attempts
    now               \* the wall clock, in ticks

\* IPLocationSDK (ip_location.py:317-324)
authVars == <<auth_attempts, now>>

AuthInit == auth_attempts = EmptyMap /\ now = 0

VARIABLES
    login_attempts_by_ip,    \* Rastreador_de_Sessão_e_Autenticação: address -> counter
    login_attempts_by_user,  \* Rastreador_de_Sessão_e_Autenticação: user -> counter
    login_calls              \* the record_login_attempt calls made so far, in order

\* Rastreador_de_Sessão_e_Autenticação (DataCollection.py:4-6)
trackerVars == <<login_attempts_by_ip, login_attempts_by_user, login_calls>>

TrackerInit ==
    /\ login_attempts_by_ip = EmptyMap
    /\ login_attempts_by_user = EmptyMap
    /\ login_calls = <<>>

VARIABLES
    events,           \* RealTimeMonitor.events
    is_monitoring,    \* RealTimeMonitor.is_monitoring
    last_position,    \* RealTimeMonitor.last_position
    mouse_pc,         \* where the mouse listener thread is inside a callback
    mouse_event,      \* the event object the mouse listener thread has built
    key_pc,           \* where the keyboard listener thread is inside a callback
    key_event         \* the event object the keyboard listener thread has built

\* RealTimeMonitor (storage_adapter.py:57-66) and its two listener threads
monitorVars == <<events, is_monitoring, last_position, mouse_pc, mouse_event, key_pc, key_event>>

NoPosition == [set |-> FALSE, x |-> 0, y |-> 0]

NoEvent == [event_id |-> <<"event", 0>>, event_type |-> "", position |-> NoPosition]

MonitorInit ==
    /\ events = <<>>
    /\ is_monitoring = FALSE
    /\ last_position = NoPosition
    /\ mouse_pc = "idle"
    /\ mouse_event = NoEvent
    /\ key_pc = "idle"
    /\ key_event = NoEvent

\* threads calling EndpointMonitor.record_request
Threads == {1, 2}

VARIABLES
    endpoints,        \* EndpointMonitor.endpoints: endpoint key -> EndpointMetrics
    request_history,  \* EndpointMonitor.request_history
    lock,             \* EndpointMonitor._lock: 0 when free, else the thread holding it
    req_pc,           \* per thread: position inside record_request
    request,          \* per thread: the RequestEvent being recorded
    completed         \* endpoint key -> number of record_request calls that have returned

\* EndpointMonitor (session_behavior.py:307-311) and its callers
endpointVars == <<endpoints, request_history, lock, req_pc, request, completed>>

NoRequest == [method |-> "", endpoint |-> "", status_code |-> 0, response_time_ms |-> 0]

EndpointInit ==
    /\ endpoints = EmptyMap
    /\ request_history = <<>>
    /\ lock = 0
    /\ req_pc = [t \in Threads |-> "idle"]
    /\ request = [t \in Threads |-> NoRequest]
    /\ completed = EmptyMap

VARIABLES
    event_handlers,   \* SessionBehaviorSDK.event_handlers: event type -> list of handlers
    sessions,         \* UserBehaviorAnalyzer.sessions: session id -> list of events
    active_sessions,  \* SessionBehaviorSDK._active_sessions (the ids)
    handler_calls,    \* every handler invocation so far: the handler and the event
    registrations,    \* every register_event_handler call so far and how it ended
    tracked           \* every tracked event so far, in order

\* SessionBehaviorSDK (session_behavior.py:422-427)
behaviorVars ==
    <<event_handlers, sessions, active_sessions, handler_calls, registrations, tracked>>

BehaviorInit ==
    /\ event_handlers = EmptyMap
    /\ sessions = EmptyMap
    /\ active_sessions = {}
    /\ handler_calls = <<>>
    /\ registrations = <<>>
    /\ tracked = <<>>

\* everything outside the scoring core
components == <<authVars, trackerVars, monitorVars, endpointVars, behaviorVars>>

ComponentsInit == AuthInit /\ TrackerInit /\ MonitorInit /\ EndpointInit /\ BehaviorInit

\* what the steps of each collector leave alone
besidesAuth == <<scoring, trackerVars, monitorVars, endpointVars, behaviorVars>>

besidesTracker == <<scoring, authVars, monitorVars, endpointVars, behaviorVars>>

besidesMonitor == <<scoring, authVars, trackerVars, endpointVars, behaviorVars>>

besidesEndpoint == <<scoring, authVars, trackerVars, monitorVars, behaviorVars>>

besidesBehavior == <<scoring, authVars, trackerVars, monitorVars, endpointVars>>

vars == <<scoring, components>>

NoResult ==
    [score |-> -1, status |-> "", recommended_action |-> "", reason_codes |-> <<>>,
     metadata |-> [model_version |-> "", hard_rule_fired |-> FALSE, context |-> EmptyMap]]

NoMemo ==
    [set |-> FALSE, between |-> FALSE, payload |-> EmptyMap, weights |-> NoWeights,
     result |-> NoResult]

\* the locals of a call that has not executed any statement yet
FreshLocals(pcv, wv, fsv, frv, hcv, srv, csv, scv, stv, acv, rsv, resv) ==
    /\ pcv = "start"
    /\ wv = EmptyMap
    /\ fsv = EmptyMap
    /\ frv = FALSE
    /\ hcv = ""
    /\ srv = 0
    /\ csv = <<>>
    /\ scv = -1
    /\ stv = ""
    /\ acv = ""
    /\ rsv = <<>>
    /\ resv = NoResult

LocalsInit ==
    FreshLocals(pc, w, features, fired_rule, hard_code, score_raw, contributions,
                score, status, action, reasons, result)

\* the scoring core at rest
ScoringIdle ==
    /\ rule_faults = {}
    /\ payload = EmptyMap
    /\ weights = NoWeights
    /\ DEFAULT_WEIGHTS = DefaultWeightConfig
    /\ memo = NoMemo
    /\ LocalsInit

Init ==
    /\ ComponentsInit
    /\ rule_faults = {}
    /\ payload \in FullPayloads
    /\ weights \in WeightArgs
    /\ DEFAULT_WEIGHTS = DefaultWeightConfig
    /\ memo = NoMemo
    /\ LocalsInit

\* ------------------------------------------------------------------------
\* calculate_score (scoring.py:74-124), one action per step
\* ------------------------------------------------------------------------
\* variant: the supplied weights are merged into the module default in place
\* (w = DEFAULT_WEIGHTS; w.update(weights or {}))
BindWeightsUpdatingDefault ==
    /\ pc = "start"
    /\ LET merged == IF weights.given THEN weights.map @@ DEFAULT_WEIGHTS
                                      ELSE DEFAULT_WEIGHTS
       IN  /\ w' = merged
           /\ DEFAULT_WEIGHTS' = merged
    /\ pc' = "extract"
    /\ UNCHANGED <<args, components, memo, features, fired_rule, hard_code,
                   score_raw, contributions, score, status, action, reasons, result>>

\* line 82: w = weights or DEFAULT_WEIGHTS
BindWeights ==
    /\ pc = "start"
    /\ w' = IF Truthy(weights) THEN weights.map ELSE DEFAULT_WEIGHTS
    /\ pc' = "extract"
    /\ UNCHANGED <<args, components, DEFAULT_WEIGHTS, memo, features, fired_rule, hard_code,
                   score_raw, contributions, score, status, action, reasons, result>>

\* line 85
ExtractFeatures ==
    /\ pc = "extract"
    /\ features' = extract_all_features(payload)
    /\ pc' = "rules"
    /\ UNCHANGED <<args, components, DEFAULT_WEIGHTS, memo, w, fired_rule, hard_code,
                   score_raw, contributions, score, status, action, reasons, result>>

\* line 89
ApplyHardRules ==
    /\ pc = "rules"
    /\ fired_rule' = hard_rules_failing(features, rule_faults)[1]
    /\ hard_code' = hard_rules_failing(features, rule_faults)[2]
    /\ pc' = "sum"
    /\ UNCHANGED <<args, components, DEFAULT_WEIGHTS, memo, w, features,
                   score_raw, contributions, score, status, action, reasons, result>>

\* variant: the raw score is summed with the module default instead of the bound w
ComputeRawScoreWithDefaults ==
    /\ pc = "sum"
    /\ score_raw' = weighted_sum(features, DEFAULT_WEIGHTS)[1]
    /\ contributions' = weighted_sum(features, DEFAULT_WEIGHTS)[2]
    /\ pc' = "calibrate"
    /\ UNCHANGED <<args, components, DEFAULT_WEIGHTS, memo, w, features, fired_rule, hard_code,
                   score, status, action, reasons, result>>

\* line 93
ComputeRawScore ==
    /\ pc = "sum"
    /\ score_raw' = weighted_sum(features, w)[1]
    /\ contributions' = weighted_sum(features, w)[2]
    /\ pc' = "calibrate"
    /\ UNCHANGED <<args, components, DEFAULT_WEIGHTS, memo, w, features, fired_rule, hard_code,
                   score, status, action, reasons, result>>

\* variant: the calibration bound is taken from a fresh read of the configuration
\* (sum(abs(v) for v in (weights or DEFAULT_WEIGHTS).values()))
CalibrateScoreRereadingConfig ==
    /\ pc = "calibrate"
    /\ score' = calibrate_score(2 * score_raw,
                    dynamic_max(IF Truthy(weights) THEN weights.map ELSE DEFAULT_WEIGHTS))
    /\ pc' = "map"
    /\ UNCHANGED <<args, components, DEFAULT_WEIGHTS, memo, w, features, fired_rule, hard_code,
                   score_raw, contributions, status, action, reasons, result>>

\* lines 97-98
CalibrateScore ==
    /\ pc = "calibrate"
    /\ IF calibrate_score_raises(Halves(score_raw), dynamic_max(w))
       THEN /\ score' = score
            /\ pc' = "raised"
       ELSE /\ score' = calibrate_score(Halves(score_raw), dynamic_max(w))
            /\ pc' = "map"
    /\ UNCHANGED <<args, components, DEFAULT_WEIGHTS, memo, w, features, fired_rule, hard_code,
                   score_raw, contributions, status, action, reasons, result>>

\* variant: a fired hard rule forces the highest-risk band
MapStatusForcedByRule ==
    /\ pc = "map"
    /\ status' = IF fired_rule THEN "ALTO_RISCO" ELSE map_to_status_action(score)[1]
    /\ action' = IF fired_rule THEN "block" ELSE map_to_status_action(score)[2]
    /\ pc' = "reasons"
    /\ UNCHANGED <<args, components, DEFAULT_WEIGHTS, memo, w, features, fired_rule, hard_code,
                   score_raw, contributions, score, reasons, result>>

\* line 102
MapStatus ==
    /\ pc = "map"
    /\ status' = map_to_status_action(score)[1]
    /\ action' = map_to_status_action(score)[2]
    /\ pc' = "reasons"
    /\ UNCHANGED <<args, components, DEFAULT_WEIGHTS, memo, w, features, fired_rule, hard_code,
                   score_raw, contributions, score, reasons, result>>

\* variant: every contribution is ranked (top_k=len(contributions))
BuildReasonsUntruncated ==
    /\ pc = "reasons"
    /\ reasons' = IF fired_rule
                  THEN <<[code |-> hard_code, contribution |-> HardRuleSentinel]>>
                           \o top_reason_codes(contributions, Len(contributions))
                  ELSE top_reason_codes(contributions, Len(contributions))
    /\ pc' = "return"
    /\ UNCHANGED <<args, components, DEFAULT_WEIGHTS, memo, w, features, fired_rule, hard_code,
                   score_raw, contributions, score, status, action, result>>

\* variant: the hard-rule entry is appended (reasons.append) instead of inserted at 0
BuildReasonsAppending ==
    /\ pc = "reasons"
    /\ reasons' = IF fired_rule
                  THEN top_reason_codes(contributions, TopK)
                           \o <<[code |-> hard_code, contribution |-> HardRuleSentinel]>>
                  ELSE top_reason_codes(contributions, TopK)
    /\ pc' = "return"
    /\ UNCHANGED <<args, components, DEFAULT_WEIGHTS, memo, w, features, fired_rule, hard_code,
                   score_raw, contributions, score, status, action, result>>

\* lines 105-107
BuildReasons ==
    /\ pc = "reasons"
    /\ reasons' = IF fired_rule
                  THEN <<[code |-> hard_code, contribution |-> HardRuleSentinel]>>
                           \o top_reason_codes(contributions, TopK)
                  ELSE top_reason_codes(contributions, TopK)
    /\ pc' = "return"
    /\ UNCHANGED <<args, components, DEFAULT_WEIGHTS, memo, w, features, fired_rule, hard_code,
                   score_raw, contributions, score, status, action, result>>

\* variant: the metadata is built without the payload's context ("context": {})
ReturnDroppingContext ==
    /\ pc = "return"
    /\ result' = [score |-> score, status |-> status, recommended_action |-> action,
                  reason_codes |-> reasons,
                  metadata |-> [model_version |-> "v0.1.0",
                                hard_rule_fired |-> fired_rule,
                                context |-> EmptyMap]]
    /\ pc' = "done"
    /\ UNCHANGED <<args, components, DEFAULT_WEIGHTS, memo, w, features, fired_rule, hard_code,
                   score_raw, contributions, score, status, action, reasons>>

\* variant: the context is indexed (payload["context"]), a KeyError when it is missing
ReturnIndexingContext ==
    /\ pc = "return"
    /\ IF "context" \in DOMAIN payload
       THEN /\ result' = [score |-> score, status |-> status, recommended_action |-> action,
                          reason_codes |-> reasons,
                          metadata |-> [model_version |-> "v0.1.0",
                                        hard_rule_fired |-> fired_rule,
                                        context |-> payload["context"]]]
            /\ pc' = "done"
       ELSE /\ result' = result
            /\ pc' = "raised"
    /\ UNCHANGED <<args, components, DEFAULT_WEIGHTS, memo, w, features, fired_rule, hard_code,
                   score_raw, contributions, score, status, action, reasons>>

\* variant: the default context is stored into the payload (payload.setdefault("context", {}))
ReturnSettingDefaultContext ==
    /\ pc = "return"
    /\ payload' = [k \in DOMAIN payload \cup {"context"} |->
                      IF k \in DOMAIN payload THEN payload[k] ELSE EmptyMap]
    /\ result' = [score |-> score, status |-> status, recommended_action |-> action,
                  reason_codes |-> reasons,
                  metadata |-> [model_version |-> "v0.1.0",
                                hard_rule_fired |-> fired_rule,
                                context |-> payload'["context"]]]
    /\ pc' = "done"
    /\ UNCHANGED <<weights, rule_faults, components, DEFAULT_WEIGHTS, memo, w, features,
                   fired_rule,
                   hard_code, score_raw, contributions, score, status, action, reasons>>

\* lines 110-124
Return ==
    /\ pc = "return"
    /\ result' = [score |-> score, status |-> status, recommended_action |-> action,
                  reason_codes |-> reasons,
                  metadata |-> [model_version |-> "v0.1.0",
                                hard_rule_fired |-> fired_rule,
                                context |-> IF "context" \in DOMAIN payload
                                            THEN payload["context"] ELSE EmptyMap]]
    /\ pc' = "done"
    /\ UNCHANGED <<args, components, DEFAULT_WEIGHTS, memo, w, features, fired_rule, hard_code,
                   score_raw, contributions, score, status, action, reasons>>

Next ==
    \/ BindWeights
    \/ ExtractFeatures
    \/ ApplyHardRules
    \/ ComputeRawScore
    \/ CalibrateScore
    \/ MapStatus
    \/ BuildReasons
    \/ Return

Spec == Init /\ [][Next]_vars

\* the whole of calculate_score on fresh arguments, as the steps compute it
ResultOf(p, wa, defaults) ==
    LET wcfg == IF Truthy(wa) THEN wa.map ELSE defaults
        fs   == extract_all_features(p)
        hr   == hard_rules(fs)
        ws   == weighted_sum(fs, wcfg)
        sc   == calibrate_score(Halves(ws[1]), dynamic_max(wcfg))
        sa   == map_to_status_action(sc)
        top  == top_reason_codes(ws[2], TopK)
    IN  [score |-> sc, status |-> sa[1], recommended_action |-> sa[2],
         reason_codes |-> IF hr[1]
                          THEN <<[code |-> hr[2], contribution |-> HardRuleSentinel]>> \o top
                          ELSE top,
         metadata |-> [model_version |-> "v0.1.0", hard_rule_fired |-> hr[1],
                       context |-> IF "context" \in DOMAIN p THEN p["context"] ELSE EmptyMap]]

\* ------------------------------------------------------------------------
\* The classifier alone, on every integer score of a bounded range
\* ------------------------------------------------------------------------
\* scores handed to the classifier range over -ScoreSlack..100+ScoreSlack
ScoreSlack == 10

InitClassify ==
    /\ ComponentsInit
    /\ rule_faults = {}
    /\ payload = EmptyMap
    /\ weights = NoWeights
    /\ DEFAULT_WEIGHTS = DefaultWeightConfig
    /\ memo = NoMemo
    /\ pc = "map"
    /\ w = DefaultWeightConfig
    /\ features = extract_all_features(EmptyMap)
    /\ fired_rule = FALSE
    /\ hard_code = ""
    /\ score_raw = 0
    /\ contributions = <<>>
    /\ score \in (0 - ScoreSlack)..(100 + ScoreSlack)
    /\ status = ""
    /\ action = ""
    /\ reasons = <<>>
    /\ result = NoResult

NextClassify == MapStatus

SpecClassify == InitClassify /\ [][NextClassify]_vars

\* ------------------------------------------------------------------------
\* Partial payloads: any group, field or context may be missing
\* ------------------------------------------------------------------------
\* the values a field of group g can carry
ValuesIn(g) == IF FieldsOf(g) \subseteq BoolFeatures THEN BOOLEAN ELSE 0..MaxVal

\* a signal group holding any subset of its fields
GroupMaps(g) == UNION {[K -> ValuesIn(g)] : K \in SUBSET FieldsOf(g)}

\* the free-form context: empty, or one audit entry
ContextMaps == {EmptyMap, [k \in {"request_id"} |-> 1]}

\* key k absent from the payload, or present with one of the maps in M
Fragment(k, M) == {EmptyMap} \cup {[x \in {k} |-> m] : m \in M}

PartialPayloads ==
    {d @@ b @@ g @@ m @@ c :
        d \in Fragment("device", GroupMaps("device")),
        b \in Fragment("behavior", GroupMaps("behavior")),
        g \in Fragment("geo", GroupMaps("geo")),
        m \in Fragment("biometrics", GroupMaps("biometrics")),
        c \in Fragment("context", ContextMaps)}

PayloadWeights ==
    { NoWeights,
      Supplied([f \in {"typing_score", "malicious_ip"} |->
                   IF f = "typing_score" THEN 1 ELSE -1]) }

InitPayload ==
    /\ ComponentsInit
    /\ rule_faults = {}
    /\ payload \in PartialPayloads
    /\ weights \in PayloadWeights
    /\ DEFAULT_WEIGHTS = DefaultWeightConfig
    /\ memo = NoMemo
    /\ LocalsInit

SpecPayload == InitPayload /\ [][Next]_vars

\* ------------------------------------------------------------------------
\* Calls during which hard-rule predicates throw
\* ------------------------------------------------------------------------
InitFaults ==
    /\ ComponentsInit
    /\ rule_faults \in SUBSET DOMAIN HardRuleList
    /\ payload \in FullPayloads
    /\ weights \in PayloadWeights
    /\ DEFAULT_WEIGHTS = DefaultWeightConfig
    /\ memo = NoMemo
    /\ LocalsInit

SpecFaults == InitFaults /\ [][Next]_vars

\* ------------------------------------------------------------------------
\* A caller issuing call after call
\* ------------------------------------------------------------------------
CallPayloads ==
    { EmptyMap,
      [g \in {"device"} |-> [f \in {"known_device"} |-> TRUE]],
      [g \in {"geo", "behavior"} |->
          IF g = "geo" THEN [f \in {"malicious_ip"} |-> TRUE]
                       ELSE [f \in {"typing_score"} |-> 1]] }

CallWeights ==
    { NoWeights,
      Supplied(EmptyMap),
      Supplied([f \in {"typing_score"} |-> 1]),
      Supplied([f \in {"known_device", "malicious_ip"} |->
                   IF f = "known_device" THEN 1 ELSE -1]) }

InitCalls ==
    /\ ComponentsInit
    /\ rule_faults = {}
    /\ payload \in CallPayloads
    /\ weights \in CallWeights
    /\ DEFAULT_WEIGHTS = DefaultWeightConfig
    /\ memo = NoMemo
    /\ LocalsInit

\* the caller, holding a returned ScoreResult, calls calculate_score again
\* (scoring.py:74-77); it may keep the arguments and result of the call that
\* just returned for a later comparison
NewCall(p, wa, keep) ==
    /\ pc = "done"
    /\ payload' = p
    /\ weights' = wa
    /\ memo' = IF keep
               THEN [set |-> TRUE, between |-> FALSE, payload |-> payload,
                     weights |-> weights, result |-> result]
               ELSE IF memo.set /\ <<payload, weights>> # <<memo.payload, memo.weights>>
                    THEN [memo EXCEPT !.between = TRUE]
                    ELSE memo
    /\ FreshLocals(pc', w', features', fired_rule', hard_code', score_raw', contributions',
                   score', status', action', reasons', result')
    /\ UNCHANGED <<DEFAULT_WEIGHTS, rule_faults, components>>

NextCalls ==
    \/ Next
    \/ \E p \in CallPayloads, wa \in CallWeights, keep \in BOOLEAN : NewCall(p, wa, keep)

SpecCalls == InitCalls /\ [][NextCalls]_vars

\* ------------------------------------------------------------------------
\* An evaluation in flight while an operator swaps the default configuration
\* ------------------------------------------------------------------------
\* configurations an operator may publish
SwapConfigs ==
    { DefaultWeightConfig,
      [f \in {"known_device"} |-> 1],
      [f \in {"typing_score", "malicious_ip"} |-> IF f = "typing_score" THEN 2 ELSE -1] }

\* the operator publishes a new configuration instance; the instance an evaluation
\* bound at line 82 is left as it was
SwapConfig(c) ==
    /\ c # DEFAULT_WEIGHTS
    /\ DEFAULT_WEIGHTS' = c
    /\ UNCHANGED <<args, components, memo, pc, w, features, fired_rule, hard_code,
                   score_raw, contributions, score, status, action, reasons, result>>

InitSwap ==
    /\ ComponentsInit
    /\ rule_faults = {}
    /\ payload \in CallPayloads
    /\ weights \in CallWeights
    /\ DEFAULT_WEIGHTS \in SwapConfigs
    /\ memo = NoMemo
    /\ LocalsInit

NextSwap ==
    \/ Next
    \/ \E c \in SwapConfigs : SwapConfig(c)

SpecSwap == InitSwap /\ [][NextSwap]_vars

\* ------------------------------------------------------------------------
\* Calls with a weight configuration that holds a non-finite weight
\* ------------------------------------------------------------------------
FloatVals == {-1, 1, PosInf, NegInf, NaN}

NonFiniteConfigs ==
    {m \in UNION {[K -> FloatVals] : K \in (SUBSET SparseNames) \ {{}}} :
        \E k \in DOMAIN m : ~IsFinite(m[k])}

InitNonFinite ==
    /\ ComponentsInit
    /\ rule_faults = {}
    /\ payload \in CallPayloads
    /\ weights \in {Supplied(m) : m \in NonFiniteConfigs}
    /\ DEFAULT_WEIGHTS = DefaultWeightConfig
    /\ memo = NoMemo
    /\ LocalsInit

SpecNonFinite == InitNonFinite /\ [][Next]_vars

\* the steps compute what ResultOf computes
StepsMatchResultOf == pc = "done" => result = ResultOf(payload, weights, DEFAULT_WEIGHTS)

\* ------------------------------------------------------------------------
\* Properties
\* ------------------------------------------------------------------------
\* the payload with field f of its group set to v (the group is created if missing)
SetField(p, f, v) ==
    LET g   == SpecOf(f).group
        old == IF g \in DOMAIN p THEN p[g] ELSE EmptyMap
    IN  [x \in DOMAIN p \cup {g} |->
            IF x = g THEN [y \in DOMAIN old \cup {f} |-> IF y = f THEN v ELSE old[y]]
            ELSE p[x]]

\* the values of feature f above v
HigherValues(f, v) ==
    IF f \in BoolFeatures THEN (IF v THEN {} ELSE {TRUE}) ELSE {x \in 0..MaxVal : x > v}

\* the score of the current call with feature f raised to v
ScoreWith(f, v) == ResultOf(SetField(payload, f, v), weights, DEFAULT_WEIGHTS).score

\* C1: the score returned by calculate_score is an integer with 0 <= score <= 100
ScoreBounded == pc = "done" => result.score \in 0..100

\* a call whose raw score exceeds the normalisation bound has returned 100
ScoreBoundedWitness ==
    /\ pc = "done"
    /\ Truthy(weights)
    /\ 2 * score_raw > dynamic_max(w)
    /\ result.score = 100

\* C2: the classifier returns LEGITIMO/allow exactly when score >= 75,
\* DESCONFIAVEL/step_up_auth exactly when 50 <= score <= 74 and ALTO_RISCO/block
\* exactly when score < 50; every score falls in exactly one band
ClassifierBands ==
    pc = "reasons" =>
        /\ (status = "LEGITIMO" /\ action = "allow") <=> score >= 75
        /\ (status = "DESCONFIAVEL" /\ action = "step_up_auth") <=> (score >= 50 /\ score <= 74)
        /\ (status = "ALTO_RISCO" /\ action = "block") <=> score < 50
        /\ <<status, action>> \in {<<"LEGITIMO", "allow">>, <<"DESCONFIAVEL", "step_up_auth">>,
                                   <<"ALTO_RISCO", "block">>}
        /\ score = 75 => status = "LEGITIMO"
        /\ score \in {74, 50} => status = "DESCONFIAVEL"
        /\ score = 49 => status = "ALTO_RISCO"

\* the classifier has mapped the boundary score 75
ClassifierBandsWitness ==
    pc = "reasons" /\ score = 75 /\ status = "LEGITIMO" /\ action = "allow"

\* C3: a call returns the result that an earlier call with the same payload and
\* weights returned, whatever calls were made in between
SameArgsSameResult ==
    (pc = "done" /\ memo.set /\ memo.payload = payload /\ memo.weights = weights)
        => memo.result = result

\* a call has returned after an earlier call with the same arguments and a call
\* with other arguments in between
SameArgsSameResultWitness ==
    /\ pc = "done"
    /\ memo.set
    /\ memo.between
    /\ memo.payload = payload
    /\ memo.weights = weights
    /\ ~weights.given
    /\ result.score # 50

\* C4: raising one feature never lowers the score when its weight is positive and
\* never raises the score when its weight is negative
ScoreMonotone ==
    pc = "done" =>
        \A f \in FeatureNames \cap DOMAIN w :
            \A v \in HigherValues(f, features[f]) :
                /\ w[f] > 0 => ScoreWith(f, v) >= result.score
                /\ w[f] < 0 => ScoreWith(f, v) <= result.score

\* a returned score that rises strictly with one feature and falls strictly with another
ScoreMonotoneWitness ==
    /\ pc = "done"
    /\ \E f \in FeatureNames \cap DOMAIN w :
          /\ w[f] > 0
          /\ \E v \in HigherValues(f, features[f]) : ScoreWith(f, v) > result.score
    /\ \E f \in FeatureNames \cap DOMAIN w :
          /\ w[f] < 0
          /\ \E v \in HigherValues(f, features[f]) : ScoreWith(f, v) < result.score

\* a supplied configuration that names at least one weight, all of them zero
AllZero(wa) == wa.given /\ DOMAIN wa.map # {} /\ \A k \in DOMAIN wa.map : wa.map[k] = 0

\* C5: with every weight zero the result is score 50, DESCONFIAVEL, step_up_auth
NeutralWeightIdentity ==
    (pc = "done" /\ AllZero(weights)) =>
        /\ result.score = 50
        /\ result.status = "DESCONFIAVEL"
        /\ result.recommended_action = "step_up_auth"

\* an all-zero configuration has scored a payload with a set feature it names
NeutralWeightIdentityWitness ==
    /\ pc = "done"
    /\ AllZero(weights)
    /\ \E f \in FeatureNames \cap DOMAIN weights.map : NumValue(f, features[f]) > 0
    /\ result.score = 50

\* C6: a supplied empty configuration is used as given and yields score 50; the
\* default weights are used only when no configuration is supplied
EmptyConfigNeutral ==
    (pc = "done" /\ weights.given /\ DOMAIN weights.map = {}) =>
        /\ w = weights.map
        /\ result.score = 50

\* C7: reason_codes is sorted by descending absolute contribution over the whole
\* list, the hard-rule entry included
ReasonCodesSortedByAbs ==
    pc = "done" =>
        \A i \in 1..(Len(result.reason_codes) - 1) :
            Abs(result.reason_codes[i].contribution)
                >= Abs(result.reason_codes[i + 1].contribution)

\* C8: reason_codes has at most 5 entries when no hard rule fired and at most 6
\* when one fired
ReasonCodesLength ==
    pc = "done" =>
        Len(result.reason_codes) <= (IF result.metadata.hard_rule_fired THEN 6 ELSE 5)

\* more than five features contributed, a hard rule fired, six entries returned
ReasonCodesLengthWitness ==
    /\ pc = "done"
    /\ Len(contributions) > 5
    /\ result.metadata.hard_rule_fired
    /\ Len(result.reason_codes) = 6

HardRuleCodes == {HardRuleList[i].code : i \in DOMAIN HardRuleList}

\* the synthetic entry of a fired hard rule
IsSentinelEntry(rc) == rc.code \in HardRuleCodes /\ rc.contribution = HardRuleSentinel

\* C9: metadata.hard_rule_fired is true exactly when the rule engine fired on the
\* extracted features; then the first reason code is the rule's code with the
\* sentinel contribution, otherwise no sentinel entry appears
HardRuleReported ==
    pc = "done" =>
        LET hr == hard_rules(extract_all_features(payload))
            rc == result.reason_codes
        IN  /\ result.metadata.hard_rule_fired = hr[1]
            /\ hr[1] => /\ Len(rc) >= 1
                        /\ rc[1] = [code |-> hr[2], contribution |-> HardRuleSentinel]
            /\ ~hr[1] => \A i \in 1..Len(rc) : ~IsSentinelEntry(rc[i])

\* a hard rule fired on a call that also has weighted reason codes
HardRuleReportedWitness ==
    /\ pc = "done"
    /\ result.metadata.hard_rule_fired
    /\ Len(result.reason_codes) >= 2
    /\ IsSentinelEntry(result.reason_codes[1])

\* C10: score, status and action are a function of the raw score and the weights
\* alone, whether or not a hard rule fired
HardRuleOnlyAnnotates ==
    pc = "done" =>
        LET sc == calibrate_score(2 * score_raw, dynamic_max(w))
        IN  /\ result.score = sc
            /\ <<result.status, result.recommended_action>> = map_to_status_action(sc)

\* a result with a fired hard rule and LEGITIMO / allow
HardRuleOnlyAnnotatesWitness ==
    /\ pc = "done"
    /\ result.metadata.hard_rule_fired
    /\ result.status = "LEGITIMO"
    /\ result.recommended_action = "allow"

\* the normalisation bound M = max(1, sum|w| / 2) of the bound configuration, in halves
BoundInHalves == IF SumAbs(w) >= 2 THEN SumAbs(w) ELSE 2

\* the raw score clamped to -M..M, in halves
ClampedInHalves ==
    IF 2 * score_raw > BoundInHalves THEN BoundInHalves
    ELSE IF 2 * score_raw < 0 - BoundInHalves THEN 0 - BoundInHalves
    ELSE 2 * score_raw

\* C11: the score is a nearest integer to (clamp(raw / M, -1, 1) + 1) * 50 with
\* M = max(1, sum|w| / 2); raw = 0 gives 50, raw >= M gives 100, raw <= -M gives 0
CalibrationFormula ==
    pc = "done" =>
        /\ 2 * Abs(result.score * BoundInHalves - (ClampedInHalves + BoundInHalves) * 50)
               <= BoundInHalves
        /\ score_raw = 0 => result.score = 50
        /\ 2 * score_raw >= BoundInHalves => result.score = 100
        /\ 2 * score_raw <= 0 - BoundInHalves => result.score = 0

\* a returned score whose scaled value was not an integer and was rounded up
CalibrationFormulaWitness ==
    /\ pc = "done"
    /\ ((ClampedInHalves + BoundInHalves) * 50) % BoundInHalves # 0
    /\ result.score * BoundInHalves > (ClampedInHalves + BoundInHalves) * 50

\* the maximal value of feature f in the checked input space
MaxValueOf(f) == IF f \in BoolFeatures THEN TRUE ELSE MaxVal

\* feature f carries the single largest positive weight and is the only feature set,
\* at its maximal value
OnlyLargestSet(f) ==
    /\ f \in FeatureNames \cap DOMAIN w
    /\ w[f] > 0
    /\ \A g \in DOMAIN w \ {f} : w[g] < w[f]
    /\ features[f] = MaxValueOf(f)
    /\ \A g \in FeatureNames \ {f} : features[g] = NeutralDefault(g)

\* the contribution of f at its maximal value reaches the bound M
Saturates(f) == 2 * NumValue(f, MaxValueOf(f)) * w[f] >= BoundInHalves

IsLegitimateAllow(r) ==
    r.score = 100 /\ r.status = "LEGITIMO" /\ r.recommended_action = "allow"

\* C12 as stated: with only the feature of the single largest positive weight set to its
\* maximal value, the score is 100 and the result LEGITIMO / allow
ScenarioBAlways ==
    pc = "done" => \A f \in FeatureNames : OnlyLargestSet(f) => IsLegitimateAllow(result)

\* C12 amended: the same, when that weight times the maximal value is at least
\* M = max(1, sum|w| / 2)
ScenarioBSaturating ==
    pc = "done" =>
        \A f \in FeatureNames : (OnlyLargestSet(f) /\ Saturates(f)) => IsLegitimateAllow(result)

\* a configuration of several weights whose largest one saturates the score
ScenarioBSaturatingWitness ==
    /\ pc = "done"
    /\ Cardinality(DOMAIN w) >= 2
    /\ \E f \in FeatureNames : OnlyLargestSet(f) /\ Saturates(f)
    /\ \E g \in DOMAIN w : w[g] < 0
    /\ IsLegitimateAllow(result)

\* the empty payload scored with the default weights (no weights argument)
IsScenarioA == pc = "done" /\ payload = EmptyMap /\ ~weights.given

NeutralResult(r) ==
    /\ r.score = 50
    /\ r.status = "DESCONFIAVEL"
    /\ r.recommended_action = "step_up_auth"
    /\ ~r.metadata.hard_rule_fired

TrustRank(s) == IF s = "ALTO_RISCO" THEN 0 ELSE IF s = "DESCONFIAVEL" THEN 1 ELSE 2

\* the status of the current call with feature f raised to v
StatusWith(f, v) == ResultOf(SetField(payload, f, v), weights, DEFAULT_WEIGHTS).status

\* C19 as stated: raising a positively weighted feature never moves the status to a more
\* trusted band, and raising a negatively weighted feature never moves it to a less trusted one
PositiveWeightIsRisk ==
    pc = "done" =>
        \A f \in FeatureNames \cap DOMAIN w :
            \A v \in HigherValues(f, features[f]) :
                /\ w[f] > 0 => TrustRank(StatusWith(f, v)) <= TrustRank(result.status)
                /\ w[f] < 0 => TrustRank(StatusWith(f, v)) >= TrustRank(result.status)

\* C19 amended: raising a positively weighted feature never moves the status to a less
\* trusted band, and raising a negatively weighted feature never moves it to a more trusted one
PositiveWeightIsTrust ==
    pc = "done" =>
        \A f \in FeatureNames \cap DOMAIN w :
            \A v \in HigherValues(f, features[f]) :
                /\ w[f] > 0 => TrustRank(StatusWith(f, v)) >= TrustRank(result.status)
                /\ w[f] < 0 => TrustRank(StatusWith(f, v)) <= TrustRank(result.status)

\* a returned status that one feature can raise to a more trusted band and another can lower
PositiveWeightIsTrustWitness ==
    /\ pc = "done"
    /\ \E f \in FeatureNames \cap DOMAIN w :
          /\ w[f] > 0
          /\ \E v \in HigherValues(f, features[f]) :
                TrustRank(StatusWith(f, v)) > TrustRank(result.status)
    /\ \E f \in FeatureNames \cap DOMAIN w :
          /\ w[f] < 0
          /\ \E v \in HigherValues(f, features[f]) :
                TrustRank(StatusWith(f, v)) < TrustRank(result.status)

\* the call has passed the weighted sum of line 93
RawScoreComputed == pc \in {"calibrate", "map", "reasons", "return", "done"}

\* the features present in both the FeatureSet and the bound weights
Weighted == DOMAIN features \cap DOMAIN w

RECURSIVE SumOver(_)
SumOver(S) ==
    IF S = {} THEN 0
    ELSE LET f == CHOOSE x \in S : TRUE
         IN  NumValue(f, features[f]) * w[f] + SumOver(S \ {f})

\* C20: the raw score is the sum of the contributions; there is exactly one contribution per
\* feature present in both the FeatureSet and the weights, equal to value * weight with
\* booleans as 0/1; features without a weight and weights without a feature add nothing
WeightedScorer ==
    RawScoreComputed =>
        /\ score_raw = SumSeq(contributions)
        /\ score_raw = SumOver(Weighted)
        /\ Len(contributions) = Cardinality(Weighted)
        /\ \A i \in 1..Len(contributions) : contributions[i].feature \in Weighted
        /\ \A f \in Weighted :
              \E i \in 1..Len(contributions) :
                  /\ contributions[i].feature = f
                  /\ contributions[i].contribution = NumValue(f, features[f]) * w[f]

\* a call summed with a weight naming no feature, a set feature carrying no weight, and a
\* true boolean feature contributing its weight
WeightedScorerWitness ==
    /\ RawScoreComputed
    /\ "unknown_signal" \in DOMAIN w
    /\ w["unknown_signal"] # 0
    /\ "known_device" \notin DOMAIN w
    /\ features["known_device"]
    /\ "malicious_ip" \in DOMAIN w
    /\ features["malicious_ip"]
    /\ score_raw = w["malicious_ip"]
    /\ score_raw # 0

\* payload p with its context key removed, or replaced by the one of fragment c
WithContext(p, c) == c @@ [k \in DOMAIN p \ {"context"} |-> p[k]]

Positions == {"start", "extract", "rules", "sum", "calibrate", "map", "reasons", "return", "done"}

\* payload p with every missing group and field filled in with its neutral default
Completed(p) ==
    [g \in SignalGroups |->
        [f \in FieldsOf(g) |->
            IF g \in DOMAIN p /\ f \in DOMAIN p[g] THEN p[g][f] ELSE NeutralDefault(f)]]

\* C15: on a payload missing any groups, fields or the context, calculate_score never
\* raises, always runs on to return a ScoreResult, and scores as if the missing fields
\* held their neutral defaults
TotalOnPartialInput ==
    /\ pc # "raised"
    /\ pc \in Positions
    /\ pc = "done" =>
          LET r == ResultOf(Completed(payload), weights, DEFAULT_WEIGHTS)
          IN  /\ result.score = r.score
              /\ result.status = r.status
              /\ result.recommended_action = r.recommended_action
              /\ result.reason_codes = r.reason_codes
              /\ result.metadata.hard_rule_fired = r.metadata.hard_rule_fired

\* a result returned for a payload without context, without three of the groups, and
\* with a field of the remaining group missing
TotalOnPartialInputWitness ==
    /\ pc = "done"
    /\ DOMAIN payload = {"geo"}
    /\ DOMAIN payload["geo"] = {"malicious_ip"}
    /\ payload["geo"]["malicious_ip"]
    /\ result.metadata.hard_rule_fired
    /\ result.metadata.context = EmptyMap

\* C18: whatever swaps of the default configuration interleave with an evaluation, the
\* evaluation sums and calibrates with the one configuration it bound, and returns what a
\* sequential call with that configuration returns
OneConfigPerEvaluation ==
    /\ pc \in {"calibrate", "map", "reasons", "return", "done"} =>
          /\ score_raw = weighted_sum(features, w)[1]
          /\ contributions = weighted_sum(features, w)[2]
    /\ pc \in {"map", "reasons", "return", "done"} =>
          score = calibrate_score(2 * score_raw, dynamic_max(w))
    /\ pc = "done" => result = ResultOf(payload, weights, w)

\* an evaluation on the default configuration has returned after that default was swapped,
\* and a call made now would score differently
OneConfigPerEvaluationWitness ==
    /\ pc = "done"
    /\ ~Truthy(weights)
    /\ w # DEFAULT_WEIGHTS
    /\ result.score # ResultOf(payload, weights, DEFAULT_WEIGHTS).score

\* the rules that match and whose predicate does not throw
LiveMatches == {i \in DOMAIN HardRuleList \ rule_faults : RuleMatches(i, features)}

\* C16: a hard-rule predicate that throws counts as that rule not firing: the call does
\* not raise, the remaining rules are still evaluated, and a ScoreResult is returned
FailingRuleDoesNotFire ==
    /\ pc # "raised"
    /\ pc \in Positions
    /\ pc = "done" =>
          /\ result.metadata.hard_rule_fired = (LiveMatches # {})
          /\ LiveMatches # {} =>
                \E i \in LiveMatches :
                    /\ \A j \in LiveMatches : i <= j
                    /\ result.reason_codes[1] =
                           [code |-> HardRuleList[i].code, contribution |-> HardRuleSentinel]
          /\ LiveMatches = {} => result.reason_codes = top_reason_codes(contributions, TopK)
          /\ result.score = ResultOf(payload, weights, DEFAULT_WEIGHTS).score
          /\ result.status = ResultOf(payload, weights, DEFAULT_WEIGHTS).status

\* a result returned although the first rule's predicate threw, reporting the second rule
FailingRuleDoesNotFireWitness ==
    /\ pc = "done"
    /\ rule_faults = {1}
    /\ features[HardRuleList[1].feature]
    /\ result.metadata.hard_rule_fired
    /\ result.reason_codes[1].code = HardRuleList[2].code

\* C17: calculate_score never returns a ScoreResult computed from a weight configuration
\* that contains a non-finite weight
NonFiniteWeightsRejected ==
    pc = "done" => \A k \in DOMAIN w : IsFinite(w[k])

\* the reason codes that come from the ranker (without the hard-rule entry of line 107)
Ranked == IF fired_rule THEN Tail(reasons) ELSE reasons

\* position in the contributions list of the feature that reason code r names
IndexOf(r) == CHOOSE j \in 1..Len(contributions) : contributions[j].feature = r.code

\* C21: the ranked reason codes are the top_k contributions by absolute magnitude: no
\* omitted contribution is strictly larger in magnitude than an included one, and
\* contributions of equal magnitude keep their computation order
RankerTopK ==
    pc \in {"return", "done"} =>
        /\ Len(Ranked) = (IF Len(contributions) < TopK THEN Len(contributions) ELSE TopK)
        /\ \A i \in 1..Len(Ranked) :
              /\ \E j \in 1..Len(contributions) : contributions[j].feature = Ranked[i].code
              /\ Ranked[i].contribution = contributions[IndexOf(Ranked[i])].contribution
        /\ \A i, k \in 1..Len(Ranked) :
              i < k =>
                  /\ Ranked[i].code # Ranked[k].code
                  /\ Abs(Ranked[i].contribution) >= Abs(Ranked[k].contribution)
                  /\ Abs(Ranked[i].contribution) = Abs(Ranked[k].contribution)
                         => IndexOf(Ranked[i]) < IndexOf(Ranked[k])
        /\ \A j \in 1..Len(contributions) :
              (\A i \in 1..Len(Ranked) : Ranked[i].code # contributions[j].feature)
                  => \A i \in 1..Len(Ranked) :
                         Abs(contributions[j].contribution) <= Abs(Ranked[i].contribution)

\* six contributions ranked down to five, with a tie between non-zero contributions and
\* a smaller one left out
RankerTopKWitness ==
    /\ pc = "done"
    /\ Len(contributions) > TopK
    /\ Len(Ranked) = TopK
    /\ \E i \in 1..(TopK - 1) :
          /\ Ranked[i].contribution # 0
          /\ Abs(Ranked[i].contribution) = Abs(Ranked[i + 1].contribution)
    /\ \E j \in 1..Len(contributions) :
          /\ \A i \in 1..Len(Ranked) : Ranked[i].code # contributions[j].feature
          /\ Abs(contributions[j].contribution) < Abs(Ranked[TopK].contribution)

\* the call has passed the hard-rule evaluation of line 89
RulesEvaluated == pc \in {"sum", "calibrate", "map", "reasons", "return", "done"}

\* C22: the rules are evaluated in order and the code of the first matching rule is
\* returned, not that of a later matching rule; when none matches, fired is false and the
\* code is empty
FirstMatchWins ==
    RulesEvaluated =>
        /\ fired_rule = (\E i \in DOMAIN HardRuleList : RuleMatches(i, features))
        /\ fired_rule =>
              \E i \in DOMAIN HardRuleList :
                  /\ RuleMatches(i, features)
                  /\ \A j \in 1..(i - 1) : ~RuleMatches(j, features)
                  /\ hard_code = HardRuleList[i].code
        /\ ~fired_rule => hard_code = ""
        /\ (pc = "done" /\ fired_rule) =>
              \A k \in 1..Len(result.reason_codes) :
                  result.reason_codes[k].code \in {HardRuleList[i].code : i \in DOMAIN HardRuleList}
                      => (k = 1 /\ result.reason_codes[k].code = hard_code)

\* both rules match and the call has returned the code of the first
FirstMatchWinsWitness ==
    /\ pc = "done"
    /\ \A i \in DOMAIN HardRuleList : RuleMatches(i, features)
    /\ hard_code = HardRuleList[1].code
    /\ result.reason_codes[1].code = HardRuleList[1].code

\* C23: every feature name referenced by the bound weight configuration is present in the
\* FeatureSet handed to the weighted scorer
WeightedNamesExtracted ==
    pc \in {"sum", "calibrate", "map", "reasons", "return", "done"} =>
        DOMAIN w \subseteq DOMAIN features

\* C24: no step of calculate_score changes the payload, the supplied weights or the
\* module default weights
InputsUnchanged == [][UNCHANGED <<payload, weights, DEFAULT_WEIGHTS>>]_vars

\* a call that used the module default weights and a payload without context has
\* returned, a hard-rule entry inserted into its reason list
InputsUnchangedWitness ==
    /\ pc = "done"
    /\ ~weights.given
    /\ w = DEFAULT_WEIGHTS
    /\ DEFAULT_WEIGHTS = DefaultWeightConfig
    /\ "context" \notin DOMAIN payload
    /\ result.metadata.context = EmptyMap
    /\ fired_rule

\* C25: the bound handed to the calibrator is at least 1 (2 halves) for every weight
\* configuration, the empty one included, so the calibrator never divides by zero and
\* never takes its max_abs_weight <= 0 branch
BoundAtLeastOne ==
    /\ dynamic_max(EmptyMap) >= 2
    /\ pc \in {"calibrate", "map", "reasons", "return", "done"} =>
          /\ dynamic_max(w) >= 2
          /\ ~(dynamic_max(w) <= 0)

\* a configuration of zero weights only has been calibrated with the floor as its bound
BoundAtLeastOneWitness ==
    /\ pc = "done"
    /\ AllZero(weights)
    /\ SumAbs(w) = 0
    /\ dynamic_max(w) = 2
    /\ result.score = 50

\* ------------------------------------------------------------------------
\* IPLocationSDK.record_auth_attempt (ip_location.py:396-416)
\* ------------------------------------------------------------------------
\* attempts recorded in one run
MaxAttempts == 3

\* ticks of the clock in one run
MaxTime == 2

\* timedelta(hours=1), in ticks
HourTicks == 2

AuthResult == {"success", "failed", "blocked", "expired"}

Usernames == {"", "alice"}

IpAddresses == {"10.0.0.1"}

\* auth_data.username or auth_data.ip_address: None and "" are falsy
UserKey(username, ip_address) == IF username # "" THEN username ELSE ip_address

AttemptsOf(k) == IF k \in DOMAIN auth_attempts THEN auth_attempts[k] ELSE <<>>

RecordedAttempts == {<<k, i>> : k \in DOMAIN auth_attempts, i \in 1..MaxAttempts}

NumRecorded == Cardinality({e \in RecordedAttempts : e[2] <= Len(auth_attempts[e[1]])})

\* the attempts of list s made within the last hour that failed (lines 405-408)
RecentFailures(s) ==
    Cardinality({i \in 1..Len(s) : s[i].timestamp > now - HourTicks /\ s[i].auth_result = "failed"})

record_auth_attempt(username, ip_address, auth_result) ==
    /\ NumRecorded < MaxAttempts
    /\ LET user_key == UserKey(username, ip_address)
           earlier  == AttemptsOf(user_key)
           auth_data ==
               [auth_result |-> auth_result,
                timestamp |-> now,
                consecutive_failures |->
                    IF auth_result = "failed" THEN RecentFailures(earlier) + 1 ELSE 0]
       IN  auth_attempts' =
               [k \in DOMAIN auth_attempts \cup {user_key} |->
                   IF k = user_key THEN Append(earlier, auth_data) ELSE auth_attempts[k]]
    /\ UNCHANGED <<besidesAuth, now>>

\* time passes between attempts
Tick ==
    /\ now < MaxTime
    /\ now' = now + 1
    /\ UNCHANGED <<besidesAuth, auth_attempts>>

InitAuth ==
    /\ rule_faults = {}
    /\ payload = EmptyMap
    /\ weights = NoWeights
    /\ DEFAULT_WEIGHTS = DefaultWeightConfig
    /\ memo = NoMemo
    /\ LocalsInit
    /\ ComponentsInit

NextAuth ==
    \/ \E u \in Usernames, a \in IpAddresses, r \in AuthResult : record_auth_attempt(u, a, r)
    \/ Tick

SpecAuth == InitAuth /\ [][NextAuth]_vars

\* the failed attempts of list s before position i that lie within the hour before
\* attempt i and after the last attempt before i that did not fail
FailuresInARow(s, i) ==
    Cardinality({j \in 1..(i - 1) :
        /\ s[j].auth_result = "failed"
        /\ s[j].timestamp > s[i].timestamp - HourTicks
        /\ \A k \in (j + 1)..(i - 1) : s[k].auth_result = "failed"})

\* C26: a FAILED attempt carries one plus the number of FAILED attempts of its user key
\* since that key's most recent non-failed attempt (within the last hour); any other
\* attempt carries 0
ConsecutiveFailuresCounted ==
    \A k \in DOMAIN auth_attempts :
        \A i \in 1..Len(auth_attempts[k]) :
            auth_attempts[k][i].consecutive_failures =
                (IF auth_attempts[k][i].auth_result = "failed"
                 THEN 1 + FailuresInARow(auth_attempts[k], i) ELSE 0)

\* ------------------------------------------------------------------------
\* Rastreador_de_Sessão_e_Autenticação.record_login_attempt (DataCollection.py:23-43)
\* ------------------------------------------------------------------------
\* record_login_attempt calls in one run
MaxLogins == 4

UserIds == {"u1", "u2"}

LoginAddresses == {"a1", "a2"}

\* counters after lines 24-28: a key seen for the first time starts at 0
CounterOf(counters, k) == IF k \in DOMAIN counters THEN counters[k] ELSE 0

\* one counter map after a call: reset on success, incremented on failure
Counted(counters, k, success) ==
    [x \in DOMAIN counters \cup {k} |->
        IF x = k THEN (IF success THEN 0 ELSE CounterOf(counters, k) + 1) ELSE counters[x]]

\* variant: a success resets the user's counter only
record_login_attempt_keeping_ip(user_id, ip_address, success) ==
    /\ Len(login_calls) < MaxLogins
    /\ login_attempts_by_ip' =
           [x \in DOMAIN login_attempts_by_ip \cup {ip_address} |->
               IF x = ip_address /\ ~success
               THEN CounterOf(login_attempts_by_ip, ip_address) + 1
               ELSE CounterOf(login_attempts_by_ip, x)]
    /\ login_attempts_by_user' = Counted(login_attempts_by_user, user_id, success)
    /\ login_calls' = Append(login_calls,
                             [user_id |-> user_id, ip_address |-> ip_address, success |-> success])
    /\ UNCHANGED besidesTracker

record_login_attempt(user_id, ip_address, success) ==
    /\ Len(login_calls) < MaxLogins
    /\ login_attempts_by_ip' = Counted(login_attempts_by_ip, ip_address, success)
    /\ login_attempts_by_user' = Counted(login_attempts_by_user, user_id, success)
    /\ login_calls' = Append(login_calls,
                             [user_id |-> user_id, ip_address |-> ip_address, success |-> success])
    /\ UNCHANGED besidesTracker

InitTracker == ScoringIdle /\ ComponentsInit

NextTracker ==
    \E u \in UserIds, a \in LoginAddresses, ok \in BOOLEAN : record_login_attempt(u, a, ok)

SpecTracker == InitTracker /\ [][NextTracker]_vars

\* the failed calls with field f equal to v that no later successful call with that
\* field equal to v follows
FailedSinceSuccess(f, v) ==
    Cardinality({i \in 1..Len(login_calls) :
        /\ login_calls[i][f] = v
        /\ ~login_calls[i].success
        /\ \A j \in (i + 1)..Len(login_calls) :
              ~(login_calls[j][f] = v /\ login_calls[j].success)})

CountersMatchHistory ==
    /\ \A u \in DOMAIN login_attempts_by_user :
          /\ login_attempts_by_user[u] = FailedSinceSuccess("user_id", u)
          /\ login_attempts_by_user[u] >= 0
    /\ \A a \in DOMAIN login_attempts_by_ip :
          /\ login_attempts_by_ip[a] = FailedSinceSuccess("ip_address", a)
          /\ login_attempts_by_ip[a] >= 0
    /\ \A u \in UserIds \ DOMAIN login_attempts_by_user : FailedSinceSuccess("user_id", u) = 0
    /\ \A a \in LoginAddresses \ DOMAIN login_attempts_by_ip :
          FailedSinceSuccess("ip_address", a) = 0

\* a call leaves the counters of every other user and address as they were
OnlyOwnCounters ==
    login_calls' # login_calls =>
        LET call == login_calls'[Len(login_calls')]
        IN  /\ \A u \in DOMAIN login_attempts_by_user' \ {call.user_id} :
                  /\ u \in DOMAIN login_attempts_by_user
                  /\ login_attempts_by_user'[u] = login_attempts_by_user[u]
            /\ \A a \in DOMAIN login_attempts_by_ip' \ {call.ip_address} :
                  /\ a \in DOMAIN login_attempts_by_ip
                  /\ login_attempts_by_ip'[a] = login_attempts_by_ip[a]

\* C30: after any sequence of record_login_attempt calls each user's counter is the number
\* of that user's failed attempts since the user's last success, each address's counter
\* likewise, none is negative, and a call changes only the counters of its own user and
\* address
LoginCounters == []CountersMatchHistory /\ [][OnlyOwnCounters]_vars

\* a user has failed from two addresses, one of which another user has since
\* logged in from
LoginCountersWitness ==
    /\ "u1" \in DOMAIN login_attempts_by_user
    /\ login_attempts_by_user["u1"] = 2
    /\ "u2" \in DOMAIN login_attempts_by_user
    /\ login_attempts_by_user["u2"] = 0
    /\ "a1" \in DOMAIN login_attempts_by_ip
    /\ login_attempts_by_ip["a1"] = 0
    /\ "a2" \in DOMAIN login_attempts_by_ip
    /\ login_attempts_by_ip["a2"] = 1

\* ------------------------------------------------------------------------
\* RealTimeMonitor: callbacks of the mouse and keyboard listener threads
\* (storage_adapter.py:90-228)
\* ------------------------------------------------------------------------
\* events recorded in one run
MaxEvents == 3

\* screen coordinates: two points more than 2 apart on either axis
Coords == {0, 3}

\* f"event_{len(self.events)}"
EventId(n) == <<"event", n>>

RealTimeEvent(type, pos) ==
    [event_id |-> EventId(Len(events)), event_type |-> type, position |-> pos]

At(x, y) == [set |-> TRUE, x |-> x, y |-> y]

\* neither thread may start a callback once MaxEvents events are recorded or built
Room ==
    Len(events) + (IF mouse_pc = "idle" THEN 0 ELSE 1) + (IF key_pc = "idle" THEN 0 ELSE 1)
        < MaxEvents

\* lines 90-109
start_monitoring ==
    /\ ~is_monitoring
    /\ is_monitoring' = TRUE
    /\ UNCHANGED <<besidesMonitor, events, last_position, mouse_pc, mouse_event, key_pc, key_event>>

\* lines 139-158: the event object is built, its id read from the length of the list
on_mouse_click(x, y, pressed) ==
    /\ mouse_pc = "idle"
    /\ Room
    /\ is_monitoring /\ pressed
    /\ mouse_event' = RealTimeEvent("mouse_click", At(x, y))
    /\ mouse_pc' = "append"
    /\ UNCHANGED <<besidesMonitor, events, is_monitoring, last_position, key_pc, key_event>>

\* lines 164-181
on_mouse_scroll(x, y) ==
    /\ mouse_pc = "idle"
    /\ Room
    /\ is_monitoring
    /\ mouse_event' = RealTimeEvent("scroll", At(x, y))
    /\ mouse_pc' = "append"
    /\ UNCHANGED <<besidesMonitor, events, is_monitoring, last_position, key_pc, key_event>>

\* lines 160 and 183: self.events.append(event_obj)
mouse_append ==
    /\ mouse_pc = "append"
    /\ events' = Append(events, mouse_event)
    /\ mouse_pc' = "idle"
    /\ UNCHANGED <<besidesMonitor, is_monitoring, last_position, mouse_event, key_pc, key_event>>

Significant(x, y) ==
    /\ last_position.set
    /\ \/ x - last_position.x > 2 \/ last_position.x - x > 2
       \/ y - last_position.y > 2 \/ last_position.y - y > 2

\* lines 121-135 and 214-227: a significant move builds an event, any other move only
\* updates last_position
on_mouse_move(x, y) ==
    /\ mouse_pc = "idle"
    /\ Room
    /\ is_monitoring
    /\ IF Significant(x, y)
       THEN /\ mouse_event' = RealTimeEvent("mouse_move", At(x, y))
            /\ mouse_pc' = "append_move"
            /\ UNCHANGED last_position
       ELSE /\ last_position' = At(x, y)
            /\ UNCHANGED <<mouse_event, mouse_pc>>
    /\ UNCHANGED <<besidesMonitor, events, is_monitoring, key_pc, key_event>>

\* lines 228 and 135
record_mouse_move_append ==
    /\ mouse_pc = "append_move"
    /\ events' = Append(events, mouse_event)
    /\ last_position' = mouse_event.position
    /\ mouse_pc' = "idle"
    /\ UNCHANGED <<besidesMonitor, is_monitoring, mouse_event, key_pc, key_event>>

\* lines 186-208
on_key_press ==
    /\ key_pc = "idle"
    /\ Room
    /\ is_monitoring
    /\ key_event' = RealTimeEvent("key_press", NoPosition)
    /\ key_pc' = "append"
    /\ UNCHANGED <<besidesMonitor, events, is_monitoring, last_position, mouse_pc, mouse_event>>

\* line 210
key_append ==
    /\ key_pc = "append"
    /\ events' = Append(events, key_event)
    /\ key_pc' = "idle"
    /\ UNCHANGED <<besidesMonitor, is_monitoring, last_position, mouse_pc, mouse_event, key_event>>

InitMonitor == ScoringIdle /\ ComponentsInit

NextMonitor ==
    \/ start_monitoring
    \/ \E x \in Coords, y \in Coords, pressed \in BOOLEAN : on_mouse_click(x, y, pressed)
    \/ \E x \in Coords, y \in Coords : on_mouse_scroll(x, y)
    \/ mouse_append
    \/ \E x \in Coords, y \in Coords : on_mouse_move(x, y)
    \/ record_mouse_move_append
    \/ on_key_press
    \/ key_append

SpecMonitor == InitMonitor /\ [][NextMonitor]_vars

\* C27: no two recorded events share an event_id, and the i-th recorded event (counting
\* from 0) has the id event_i
EventIdsUnique ==
    /\ \A i, j \in 1..Len(events) : i # j => events[i].event_id # events[j].event_id
    /\ \A i \in 1..Len(events) : events[i].event_id = EventId(i - 1)

\* ------------------------------------------------------------------------
\* EndpointMonitor.record_request (session_behavior.py:313-361)
\* ------------------------------------------------------------------------
\* record_request calls started in one run
MaxRequests == 3

HTTPMethod == {"GET", "POST"}

StatusCodes == {200, 403, 500}

RequestEvents ==
    [method : HTTPMethod, endpoint : {"/login"}, status_code : StatusCodes,
     response_time_ms : {10}]

\* RequestEvent.status (lines 171-181)
StatusOf(r) ==
    IF 200 <= r.status_code /\ r.status_code < 300 THEN "success"
    ELSE IF r.status_code = 408 \/ r.response_time_ms > 30000 THEN "timeout"
    ELSE IF r.status_code = 429 \/ r.status_code = 403 THEN "blocked"
    ELSE "error"

\* f"{request.method.value}:{request.endpoint}"
EndpointKey(r) == <<r.method, r.endpoint>>

\* EndpointMetrics(endpoint=..., method=...) (lines 64-74)
EndpointMetrics ==
    [total_requests |-> 0, successful_requests |-> 0, failed_requests |-> 0,
     response_times |-> <<>>, status_codes |-> EmptyMap]

CallsStarted ==
    Len(request_history) + Cardinality({t \in Threads : req_pc[t] # "idle"})

\* the metrics of the endpoint that thread t is recording, after update f
Updated(t, m) ==
    [k \in DOMAIN endpoints |-> IF k = EndpointKey(request[t]) THEN m ELSE endpoints[k]]

Metrics(t) == endpoints[EndpointKey(request[t])]

\* variant: the body runs without taking the lock
record_request_unlocked(t, r) ==
    /\ req_pc[t] = "idle"
    /\ CallsStarted < MaxRequests
    /\ request' = [request EXCEPT ![t] = r]
    /\ req_pc' = [req_pc EXCEPT ![t] = "get"]
    /\ UNCHANGED <<besidesEndpoint, endpoints, request_history, lock, completed>>

\* line 315: with self._lock
record_request(t, r) ==
    /\ req_pc[t] = "idle"
    /\ CallsStarted < MaxRequests
    /\ lock = 0
    /\ lock' = t
    /\ request' = [request EXCEPT ![t] = r]
    /\ req_pc' = [req_pc EXCEPT ![t] = "get"]
    /\ UNCHANGED <<besidesEndpoint, endpoints, request_history, completed>>

\* lines 316-325
record_request_get(t) ==
    /\ req_pc[t] = "get"
    /\ endpoints' = [k \in DOMAIN endpoints \cup {EndpointKey(request[t])} |->
                        IF k \in DOMAIN endpoints THEN endpoints[k] ELSE EndpointMetrics]
    /\ req_pc' = [req_pc EXCEPT ![t] = "total"]
    /\ UNCHANGED <<besidesEndpoint, request_history, lock, request, completed>>

\* line 328
record_request_total(t) ==
    /\ req_pc[t] = "total"
    /\ endpoints' = Updated(t, [Metrics(t) EXCEPT !.total_requests = @ + 1])
    /\ req_pc' = [req_pc EXCEPT ![t] = "times"]
    /\ UNCHANGED <<besidesEndpoint, request_history, lock, request, completed>>

\* line 329
record_request_times(t) ==
    /\ req_pc[t] = "times"
    /\ endpoints' = Updated(t, [Metrics(t) EXCEPT
                                   !.response_times = Append(@, request[t].response_time_ms)])
    /\ req_pc' = [req_pc EXCEPT ![t] = "codes"]
    /\ UNCHANGED <<besidesEndpoint, request_history, lock, request, completed>>

\* lines 335-338
record_request_codes(t) ==
    /\ req_pc[t] = "codes"
    /\ LET codes == Metrics(t).status_codes
           c     == request[t].status_code
       IN  endpoints' = Updated(t, [Metrics(t) EXCEPT !.status_codes =
               [x \in DOMAIN codes \cup {c} |->
                   IF x = c THEN (IF c \in DOMAIN codes THEN codes[c] + 1 ELSE 1)
                   ELSE codes[x]]])
    /\ req_pc' = [req_pc EXCEPT ![t] = "outcome"]
    /\ UNCHANGED <<besidesEndpoint, request_history, lock, request, completed>>

\* lines 341-344
record_request_outcome(t) ==
    /\ req_pc[t] = "outcome"
    /\ endpoints' = Updated(t,
           IF StatusOf(request[t]) = "success"
           THEN [Metrics(t) EXCEPT !.successful_requests = @ + 1]
           ELSE [Metrics(t) EXCEPT !.failed_requests = @ + 1])
    /\ req_pc' = [req_pc EXCEPT ![t] = "history"]
    /\ UNCHANGED <<besidesEndpoint, request_history, lock, request, completed>>

\* line 348 and the end of the with block: the call returns
record_request_return(t) ==
    /\ req_pc[t] = "history"
    /\ request_history' = Append(request_history, request[t])
    /\ lock' = IF lock = t THEN 0 ELSE lock
    /\ completed' = [k \in DOMAIN completed \cup {EndpointKey(request[t])} |->
                        (IF k \in DOMAIN completed THEN completed[k] ELSE 0)
                            + (IF k = EndpointKey(request[t]) THEN 1 ELSE 0)]
    /\ req_pc' = [req_pc EXCEPT ![t] = "idle"]
    /\ UNCHANGED <<besidesEndpoint, endpoints, request>>

InitEndpoint == ScoringIdle /\ ComponentsInit

NextEndpoint ==
    \E t \in Threads :
        \/ \E r \in RequestEvents : record_request(t, r)
        \/ record_request_get(t)
        \/ record_request_total(t)
        \/ record_request_times(t)
        \/ record_request_codes(t)
        \/ record_request_outcome(t)
        \/ record_request_return(t)

SpecEndpoint == InitEndpoint /\ [][NextEndpoint]_vars

RECURSIVE SumCodes(_)
SumCodes(codes) ==
    IF DOMAIN codes = {} THEN 0
    ELSE LET c == CHOOSE x \in DOMAIN codes : TRUE
         IN  codes[c] + SumCodes([x \in DOMAIN codes \ {c} |-> codes[x]])

\* the counters of every endpoint agree with each other and with the completed calls
MetricsConsistent ==
    /\ DOMAIN completed \subseteq DOMAIN endpoints
    /\ \A k \in DOMAIN endpoints :
          LET m == endpoints[k]
          IN  /\ m.total_requests = m.successful_requests + m.failed_requests
              /\ m.total_requests = Len(m.response_times)
              /\ m.total_requests = SumCodes(m.status_codes)
              /\ m.total_requests = (IF k \in DOMAIN completed THEN completed[k] ELSE 0)

\* C28 as stated: the counters agree in every reachable state
MetricsConsistentAlways == MetricsConsistent

\* C28 amended: the counters agree in every state in which no record_request call is
\* inside the locked section
MetricsConsistentWhenUnlocked == lock = 0 => MetricsConsistent

\* three calls for the same endpoint have returned, one successful and two failed, with
\* three different status codes
MetricsConsistentWhenUnlockedWitness ==
    /\ lock = 0
    /\ \A t \in Threads : req_pc[t] = "idle"
    /\ \E k \in DOMAIN endpoints :
          /\ endpoints[k].total_requests = 3
          /\ endpoints[k].successful_requests = 1
          /\ endpoints[k].failed_requests = 2
          /\ Cardinality(DOMAIN endpoints[k].status_codes) = 3

\* ------------------------------------------------------------------------
\* SessionBehaviorSDK: event handlers (session_behavior.py:431-514)
\* ------------------------------------------------------------------------
\* events tracked in one run
MaxTracked == 2

\* register_event_handler calls in one run
MaxRegistrations == 2

\* the event types of the four track methods, and one that none of them produces
EventType == {"click", "scroll", "form_submit", "custom", "hover"}

\* callables handed to register_event_handler; the second raises when invoked
Handlers == {"h1", "h2"}

SessionIds == {"s1"}

\* self.event_handlers is a defaultdict(list): reading a missing key stores an empty list
HandlersOf(t) == IF t \in DOMAIN event_handlers THEN event_handlers[t] ELSE <<>>

Touched(t) == [x \in DOMAIN event_handlers \cup {t} |-> HandlersOf(x)]

\* lines 431-434: self.event_handlers[event_type].Fappend(handler); a list has no
\* attribute Fappend, so the call raises AttributeError after the defaultdict read
register_event_handler(event_type, handler) ==
    /\ Len(registrations) < MaxRegistrations
    /\ event_handlers' = Touched(event_type)
    /\ registrations' = Append(registrations,
           [event_type |-> event_type, handler |-> handler, raised |-> TRUE,
            before |-> Len(tracked) + 1])
    /\ UNCHANGED <<besidesBehavior, sessions, active_sessions, handler_calls, tracked>>

\* lines 436-442: every handler of the event's type is invoked in turn, an exception
\* of one being caught before the next
Invocations(event) ==
    [i \in 1..Len(HandlersOf(event.event_type)) |->
        [handler |-> HandlersOf(event.event_type)[i], event_id |-> event.event_id]]

\* the common body of the track methods: add_event, trigger_event_handlers,
\* _update_session_activity
Track(session_id, event_type) ==
    LET event == [event_id |-> Len(tracked) + 1, event_type |-> event_type,
                  session_id |-> session_id]
    IN  /\ Len(tracked) < MaxTracked
        /\ sessions' = [s \in DOMAIN sessions \cup {session_id} |->
                           IF s = session_id
                           THEN Append(IF s \in DOMAIN sessions THEN sessions[s] ELSE <<>>, event)
                           ELSE sessions[s]]
        /\ event_handlers' = Touched(event_type)
        /\ handler_calls' = handler_calls \o Invocations(event)
        /\ active_sessions' = active_sessions \cup {session_id}
        /\ tracked' = Append(tracked, event)
        /\ UNCHANGED <<besidesBehavior, registrations>>

\* lines 446-463
track_click(session_id) == Track(session_id, "click")

\* lines 465-480
track_scroll(session_id) == Track(session_id, "scroll")

\* lines 482-497
track_form_submit(session_id) == Track(session_id, "form_submit")

\* lines 499-513
track_custom_event(session_id) == Track(session_id, "custom")

InitBehavior == ScoringIdle /\ ComponentsInit

NextBehavior ==
    \/ \E t \in EventType, h \in Handlers : register_event_handler(t, h)
    \/ \E s \in SessionIds : track_click(s)
    \/ \E s \in SessionIds : track_scroll(s)
    \/ \E s \in SessionIds : track_form_submit(s)
    \/ \E s \in SessionIds : track_custom_event(s)

SpecBehavior == InitBehavior /\ [][NextBehavior]_vars

\* how often handler h was invoked with event e
CallsOf(h, e) ==
    Cardinality({i \in 1..Len(handler_calls) :
        handler_calls[i].handler = h /\ handler_calls[i].event_id = e.event_id})

\* how often h was registered for type t before event e was tracked
RegisteredBefore(t, h, e) ==
    Cardinality({i \in 1..Len(registrations) :
        /\ registrations[i].event_type = t
        /\ registrations[i].handler = h
        /\ registrations[i].before <= e.event_id})

\* C29: register_event_handler(t, h) registers h: the call returns, every event of type
\* t tracked afterwards invokes h once per registration, whether or not another handler
\* raised, and events of other types do not invoke h
HandlersInvoked ==
    /\ \A i \in 1..Len(registrations) : ~registrations[i].raised
    /\ \A k \in 1..Len(tracked) :
          \A h \in Handlers :
              CallsOf(h, tracked[k]) = RegisteredBefore(tracked[k].event_type, h, tracked[k])

====
